---- MODULE Spec2Model ----
(***************************************************************************)
(* Model of app/edge_tts/data_classes.py: the TTSConfig class, its         *)
(* constructor, its __post_init__ hook (voice canonicalization followed by *)
(* the field checks) and the static method validate_string_param.          *)
(*                                                                         *)
(* A Python string is a sequence of one-character strings.  A Python value *)
(* is a record [type, val]: type is "str" for a str and "int" for a value  *)
(* that is not a str; val is the text (for an int, its repr).              *)
(***************************************************************************)
EXTENDS Integers, Sequences, FiniteSets, TLC

VARIABLES args, obj, calls, outcome

vars == <<args, obj, calls, outcome>>

----------------------------------------------------------------------------
(* Bounds of the explored inputs.                                          *)

MaxLangLen == 2
MaxRegionLen == 2
MaxBodyLen == 3
MaxInsideLen == 3
MaxParamLen == 4
MaxCalls == 2

----------------------------------------------------------------------------
(* Characters and character classes of Python's re module.                 *)

LowerChars ==
  {"a","b","c","d","e","f","g","h","i","j","k","l","m",
   "n","o","p","q","r","s","t","u","v","w","x","y","z"}

UpperChars ==
  {"A","B","C","D","E","F","G","H","I","J","K","L","M",
   "N","O","P","Q","R","S","T","U","V","W","X","Y","Z"}

DigitChars == {"0","1","2","3","4","5","6","7","8","9"}

SignChars == {"+", "-"}

NL == "\n"

Str(s) == [type |-> "str", val |-> s]

NonStr(s) == [type |-> "int", val |-> s]

NoValue == [type |-> "none", val |-> <<>>]

isinstance_str(v) == v.type = "str"

(* s[a:b] of Python, a and b 0-based, 0 <= a, b <= len(s) *)
Slice(s, a, b) == SubSeq(s, a + 1, b)

(* s[a:] *)
SliceFrom(s, a) == SubSeq(s, a + 1, Len(s))

(* str.rfind(c) in place of str.find(c): the last occurrence *)
FindLast(s, c) ==
  IF \E i \in 1..Len(s) : s[i] = c
  THEN (CHOOSE i \in 1..Len(s) : s[i] = c /\ \A j \in (i + 1)..Len(s) : s[j] # c) - 1
  ELSE -1

(* str.find(c): the 0-based index of the first occurrence, -1 if none *)
Find(s, c) ==
  IF \E i \in 1..Len(s) : s[i] = c
  THEN (CHOOSE i \in 1..Len(s) : s[i] = c /\ \A j \in 1..(i - 1) : s[j] # c) - 1
  ELSE -1

EndsWith(s, t) ==
  /\ Len(s) >= Len(t)
  /\ SubSeq(s, Len(s) - Len(t) + 1, Len(s)) = t

(* the number of consecutive characters of class cls from position i on:  *)
(* what a greedy cls* consumes                                             *)
RECURSIVE RunLen(_, _, _)
RunLen(s, i, cls) ==
  IF i <= Len(s) /\ s[i] \in cls THEN 1 + RunLen(s, i + 1, cls) ELSE 0

(* '.' matches every character but a line break *)
AllDot(s) == \A i \in 1..Len(s) : s[i] # NL

(* the prefixes of s at whose end '$' matches: the end of the string, and  *)
(* the position just before a line break that ends the string              *)
DollarEnds(s) ==
  {Len(s)} \cup (IF Len(s) >= 1 /\ s[Len(s)] = NL THEN {Len(s) - 1} ELSE {})

----------------------------------------------------------------------------
(* The literals and the regular expressions of the source.                 *)

Neural == <<"N","e","u","r","a","l">>

Prefix ==
  <<"M","i","c","r","o","s","o","f","t"," ","S","e","r","v","e","r"," ",
    "S","p","e","e","c","h"," ","T","e","x","t"," ","t","o"," ",
    "S","p","e","e","c","h"," ","V","o","i","c","e">>

NoMatch == [matched |-> FALSE, g1 |-> <<>>, g2 |-> <<>>, g3 |-> <<>>]

(* re.match(r"^([a-z]{2,})-([A-Z]{2,})-(.+Neural)$", s) *)
MatchShort(s) ==
  LET l == RunLen(s, 1, LowerChars)
      r == RunLen(s, l + 2, UpperChars)
      start == l + r + 2
      ends == {e \in DollarEnds(s) :
                 /\ e - start >= Len(Neural) + 1
                 /\ EndsWith(SubSeq(s, start + 1, e), Neural)
                 /\ AllDot(SubSeq(s, start + 1, e))}
  IN IF /\ l >= 2
        /\ Len(s) >= l + 1 /\ s[l + 1] = "-"
        /\ r >= 2
        /\ Len(s) >= start /\ s[start] = "-"
        /\ ends # {}
     THEN [matched |-> TRUE,
           g1 |-> SubSeq(s, 1, l),
           g2 |-> SubSeq(s, l + 2, l + r + 1),
           g3 |-> SubSeq(s, start + 1, CHOOSE e \in ends : TRUE)]
     ELSE NoMatch

(* re.match(r"^Microsoft Server Speech Text to Speech Voice \(.+,.+\)$", s) *)
MatchVoice(s) ==
  LET open == Len(Prefix) + 2
  IN /\ Len(s) >= open
     /\ SubSeq(s, 1, open) = Prefix \o <<" ", "(">>
     /\ \E e \in DollarEnds(s) :
          /\ e > open
          /\ s[e] = ")"
          /\ AllDot(SubSeq(s, open + 1, e - 1))
          /\ \E k \in (open + 2)..(e - 2) : s[k] = ","

(* re.match(r"^[+-]\d+" + suffix + "$", s) *)
MatchSigned(s, suffix) ==
  \E e \in DollarEnds(s) :
    LET d == e - Len(suffix) - 1
    IN /\ d >= 1
       /\ s[1] \in SignChars
       /\ \A i \in 2..(d + 1) : s[i] \in DigitChars
       /\ SubSeq(s, d + 2, e) = suffix

(* re.match(r"^[+-]\d+%$", s) *)
MatchPercent(s) == MatchSigned(s, <<"%">>)

(* re.match(r"^[+-]\d+Hz$", s) *)
MatchHz(s) == MatchSigned(s, <<"H", "z">>)

ParamNames == <<"voice", "rate", "volume", "pitch">>

(* the pattern each parameter is checked against *)
PatternOf(param_name) ==
  CASE param_name = "voice" -> "voice"
    [] param_name = "rate" -> "percent"
    [] param_name = "volume" -> "percent"
    [] param_name = "pitch" -> "hz"

(* re.match(pattern, s) is not None *)
ReMatch(pattern, s) ==
  CASE pattern = "voice" -> MatchVoice(s)
    [] pattern = "percent" -> MatchPercent(s)
    [] pattern = "hz" -> MatchHz(s)

----------------------------------------------------------------------------
(* args holds the arguments of the caller's call, by parameter name.       *)
(* Results of a call: the value returned or the exception raised.  param   *)
(* is the parameter name the exception message carries ("" if none) and    *)
(* value the offending value it carries (NoValue if none).                 *)

Returned(op, v) ==
  [op |-> op, exc |-> "none", param |-> "", value |-> v]

Raised(op, exc, param, v) ==
  [op |-> op, exc |-> exc, param |-> param, value |-> v]

NotCalled == [op |-> "none", exc |-> "none", param |-> "", value |-> NoValue]

(* TTSConfig.validate_string_param(param_name, param_value, pattern) *)
validate_string_param(param_name, param_value, pattern) ==
  IF ~isinstance_str(param_value)
  THEN Raised("validate_string_param", "TypeError", param_name, NoValue)
  ELSE IF ~ReMatch(pattern, param_value.val)
       THEN Raised("validate_string_param", "ValueError", param_name, param_value)
       ELSE Returned("validate_string_param", param_value)

(* the format string without its comma: f" ({lang}-{region} {name})" *)
CanonicalFormNoComma(lang, region, name) ==
  Prefix \o <<" ", "(">> \o lang \o <<"-">> \o region \o <<" ">> \o name \o <<")">>

(* the format string alone, the literal and the parentheses lost:          *)
(* f"{lang}-{region}, {name}"                                              *)
CanonicalFormBare(lang, region, name) ==
  lang \o <<"-">> \o region \o <<",", " ">> \o name

(* "Microsoft Server Speech Text to Speech Voice" + f" ({lang}-{region}, {name})" *)
CanonicalForm(lang, region, name) ==
  Prefix \o <<" ", "(">> \o lang \o <<"-">> \o region \o <<",", " ">> \o name \o <<")">>

(* the rewriting of self.voice in __post_init__, voice a str *)
Canonicalize(voice) ==
  LET match == MatchShort(voice)
      lang == match.g1
      name0 == match.g3
      hyphen == Find(name0, "-")
      region == IF hyphen # -1
                THEN match.g2 \o <<"-">> \o Slice(name0, 0, hyphen)
                ELSE match.g2
      name == IF hyphen # -1 THEN SliceFrom(name0, hyphen + 1) ELSE name0
  IN IF match.matched THEN CanonicalForm(lang, region, name) ELSE voice

NoObject == [voice |-> NoValue, rate |-> NoValue, volume |-> NoValue, pitch |-> NoValue]

(* __init__ with self.rate and self.volume assigned from each other's     *)
(* argument                                                                *)
NewObjectSwapped(voice, rate, volume, pitch) ==
  [voice |-> voice, rate |-> volume, volume |-> rate, pitch |-> pitch]

(* TTSConfig.__init__: the four attributes are the four arguments *)
NewObject(voice, rate, volume, pitch) ==
  [voice |-> voice, rate |-> rate, volume |-> volume, pitch |-> pitch]

----------------------------------------------------------------------------
(* The inputs explored.                                                    *)

(* the strings of 1..n copies of the character c *)
Runs(c, n) == {[i \in 1..k |-> c] : k \in 1..n}

(* the strings over alphabet of length 0..n *)
Words(alphabet, n) == UNION {[1..k -> alphabet] : k \in 0..n}

ShortLikeVoices ==
  {l \o <<"-">> \o r \o <<"-">> \o b \o t :
     l \in Runs("x", MaxLangLen), r \in Runs("Y", MaxRegionLen),
     b \in Words({"A", "-"}, MaxBodyLen),
     t \in {Neural, Neural \o <<NL>>, <<"n","e","u","r","a","l">>}}

CanonLikeVoices ==
  {Prefix \o <<" ", "(">> \o w \o <<")">> \o t :
     w \in Words({"a", ","}, MaxInsideLen), t \in {<<>>, <<NL>>}}

VoiceInputs ==
  {Str(s) : s \in ShortLikeVoices \cup CanonLikeVoices \cup {<<>>}}
    \cup {NonStr(<<"5">>)}

RateInputs ==
  {Str(<<"+","0","%">>), Str(<<"1","0","%">>), Str(<<"-","5",".","5","%">>),
   NonStr(<<"5">>)}

VolumeInputs ==
  {Str(<<"-","2","0","%">>), Str(<<"2","0","%">>), Str(<<>>), NonStr(<<"5">>)}

PitchInputs ==
  {Str(<<"+","0","H","z">>), Str(<<"+","0","h","z">>), NonStr(<<"5">>)}

ParamAlphabet == {"+", "-", "1", "%", "H", "z", "h", ".", NL}

ParamInputs ==
  {Str(s) : s \in Words(ParamAlphabet, MaxParamLen)} \cup {NonStr(<<"5">>)}

----------------------------------------------------------------------------
(* The state machine: a caller constructs one TTSConfig and may then call  *)
(* its __post_init__ hook; __init__ does not call it.                      *)

Init ==
  /\ args = NoObject
  /\ obj = NoObject
  /\ calls = 0
  /\ outcome = NotCalled

(* TTSConfig(voice, rate, volume, pitch) *)
Construct ==
  /\ outcome.op = "none"
  /\ \E voice \in VoiceInputs, rate \in RateInputs,
        volume \in VolumeInputs, pitch \in PitchInputs :
       /\ args' = [voice |-> voice, rate |-> rate, volume |-> volume, pitch |-> pitch]
       /\ obj' = NewObject(voice, rate, volume, pitch)
  /\ outcome' = Returned("__init__", NoValue)
  /\ UNCHANGED calls

(* the name looked up on self at the four check lines of __post_init__ *)
CheckMethod == "validate_string_pattern"

(* the methods TTSConfig defines *)
Methods == {"validate_string_param", "__init__", "__post_init__"}

(* self.<CheckMethod>(name, self.<name>, pattern) for the four names in    *)
(* order, from the i-th on: the first exception, or the last return        *)
RECURSIVE CheckFields(_, _)
CheckFields(o, i) ==
  IF CheckMethod \notin Methods
  THEN Raised("__post_init__", "AttributeError", "", NoValue)
  ELSE LET name == ParamNames[i]
           res == validate_string_param(name, o[name], PatternOf(name))
       IN IF res.exc # "none"
          THEN Raised("__post_init__", res.exc, res.param, res.value)
          ELSE IF i = Len(ParamNames)
               THEN Returned("__post_init__", NoValue)
               ELSE CheckFields(o, i + 1)

(* config.__post_init__() *)
PostInit ==
  /\ outcome.op # "none"
  /\ outcome.op # "validate_string_param"
  /\ calls < MaxCalls
  /\ calls' = calls + 1
  /\ IF ~isinstance_str(obj.voice)
     THEN \* re.match raises on a value that is not a str
          /\ outcome' = Raised("__post_init__", "TypeError", "", NoValue)
          /\ UNCHANGED obj
     ELSE LET o == [obj EXCEPT !.voice = Str(Canonicalize(obj.voice.val))]
          IN /\ obj' = o
             /\ outcome' = CheckFields(o, 1)
  /\ UNCHANGED args

Next == Construct \/ PostInit

Spec == Init /\ [][Next]_vars

(* TTSConfig.validate_string_param(name, v, pattern), called once by a    *)
(* caller of the static method alone                                       *)
ValidateStringParam ==
  /\ outcome.op = "none"
  /\ \E i \in 1..Len(ParamNames), v \in ParamInputs :
       /\ args' = [NoObject EXCEPT ![ParamNames[i]] = v]
       /\ outcome' = validate_string_param(ParamNames[i], v, PatternOf(ParamNames[i]))
  /\ UNCHANGED <<obj, calls>>

NextParam == ValidateStringParam

SpecParam == Init /\ [][NextParam]_vars

----------------------------------------------------------------------------
(* Notions the properties are stated in.                                   *)

(* the field passes its check: a str that matches its pattern *)
FieldAccepted(o, name) ==
  validate_string_param(name, o[name], PatternOf(name)).exc = "none"

(* the index in ParamNames of the first field of o that fails its check,   *)
(* 0 if none fails                                                         *)
FirstFailing(o) ==
  IF \A i \in 1..Len(ParamNames) : FieldAccepted(o, ParamNames[i])
  THEN 0
  ELSE CHOOSE i \in 1..Len(ParamNames) :
         /\ ~FieldAccepted(o, ParamNames[i])
         /\ \A j \in 1..(i - 1) : FieldAccepted(o, ParamNames[j])

(* the whole of s is one sign, one or more digits, then suffix *)
WholeSigned(s, suffix) ==
  /\ Len(s) >= Len(suffix) + 2
  /\ s[1] \in SignChars
  /\ \A i \in 2..(Len(s) - Len(suffix)) : s[i] \in DigitChars
  /\ SubSeq(s, Len(s) - Len(suffix) + 1, Len(s)) = suffix

SuffixOf(name) == IF name = "pitch" THEN <<"H", "z">> ELSE <<"%">>

PostInitDone == outcome.op = "__post_init__"

ShortVoiceGiven == isinstance_str(args.voice) /\ MatchShort(args.voice.val).matched

----------------------------------------------------------------------------
(* C1: every TTSConfig the constructor has returned holds four fields that *)
(* pass their checks: voice the canonical pattern, rate and volume the     *)
(* percentage pattern, pitch the hertz pattern.                            *)
C1_ConstructedIsValid ==
  obj # NoObject => \A i \in 1..Len(ParamNames) : FieldAccepted(obj, ParamNames[i])

(* C2: when a field fails, the validation pass reports a type or format    *)
(* error that names the first failing field in the order voice, rate,      *)
(* volume, pitch.                                                          *)
C2_FirstFailureNamed ==
  (PostInitDone /\ FirstFailing(obj) # 0) =>
    /\ outcome.exc \in {"TypeError", "ValueError"}
    /\ outcome.param = ParamNames[FirstFailing(obj)]

(* C3: a field that is not a str yields a type error naming the parameter; *)
(* a str that fails its pattern yields a format error naming the parameter *)
(* and carrying the value; this for voice as for the other three.          *)
C3_ErrorKinds ==
  (PostInitDone /\ FirstFailing(obj) # 0) =>
    LET name == ParamNames[FirstFailing(obj)]
    IN IF isinstance_str(obj[name])
       THEN outcome = Raised("__post_init__", "ValueError", name, obj[name])
       ELSE outcome = Raised("__post_init__", "TypeError", name, NoValue)

(* C4: a validation pass ends either Valid or Rejected with a type or      *)
(* format error that identifies a field; it ends in nothing else.          *)
C4_TwoOutcomes ==
  PostInitDone =>
    \/ outcome.exc = "none"
    \/ /\ outcome.exc \in {"TypeError", "ValueError"}
       /\ \E i \in 1..Len(ParamNames) : outcome.param = ParamNames[i]

(* C5: a rejected validation leaves no object whose voice has been         *)
(* rewritten observable.                                                   *)
C5_NoPartialConstruction ==
  (PostInitDone /\ outcome.exc # "none") => obj.voice = args.voice

(* C6: a voice lang-region-name (lang two or more lowercase letters,       *)
(* region two or more uppercase letters, name some text ending in Neural)  *)
(* becomes "Microsoft ... Voice (lang-region, name)" when name has no      *)
(* hyphen, and "(lang-region-a, b)" when the first hyphen of name splits   *)
(* it into a and b.                                                        *)
C6_CanonicalShape ==
  (PostInitDone /\ isinstance_str(args.voice)) =>
    LET v == args.voice.val
        Open == Prefix \o <<" ", "(">>
        Hyphens == {k \in 1..Len(v) : v[k] = "-"}
    IN \A i \in Hyphens, j \in Hyphens :
         LET lang == SubSeq(v, 1, i - 1)
             region == SubSeq(v, i + 1, j - 1)
             name == SubSeq(v, j + 1, Len(v))
         IN ( /\ i < j /\ v[i] = "-" /\ v[j] = "-"
              /\ Len(lang) >= 2 /\ \A k \in 1..Len(lang) : lang[k] \in LowerChars
              /\ Len(region) >= 2 /\ \A k \in 1..Len(region) : region[k] \in UpperChars
              /\ Len(name) > Len(Neural) /\ EndsWith(name, Neural) /\ AllDot(name) )
            =>
            /\ (\A k \in 1..Len(name) : name[k] # "-") =>
                 obj.voice.val =
                   Open \o lang \o <<"-">> \o region \o <<",", " ">> \o name \o <<")">>
            /\ \A k \in 1..Len(name) :
                 (name[k] = "-" /\ \A m \in 1..(k - 1) : name[m] # "-") =>
                   obj.voice.val =
                     Open \o lang \o <<"-">> \o region \o <<"-">> \o SubSeq(name, 1, k - 1)
                       \o <<",", " ">> \o SubSeq(name, k + 1, Len(name)) \o <<")">>

C6_Witness ==
  /\ PostInitDone
  /\ ShortVoiceGiven
  /\ Find(MatchShort(args.voice.val).g3, "-") >= 1
  /\ FindLast(MatchShort(args.voice.val).g3, "-") > Find(MatchShort(args.voice.val).g3, "-")
  /\ obj.voice # args.voice

(* C7: canonicalizing the canonicalized short-form voice again changes     *)
(* nothing: a further __post_init__ on the object leaves its voice as the  *)
(* first one set it.                                                       *)
C7_Idempotent ==
  [][(ShortVoiceGiven /\ calls >= 1 /\ calls' = calls + 1) => obj'.voice = obj.voice]_vars

C7_Witness ==
  /\ ShortVoiceGiven
  /\ calls = 2
  /\ obj.voice # args.voice

(* C8: rate, volume and pitch are never rewritten and a voice that does    *)
(* not match the short-form pattern is kept, so an object built from a     *)
(* canonical voice holds exactly its four inputs.                          *)
C8_Frame ==
  obj # NoObject =>
    /\ obj.rate = args.rate
    /\ obj.volume = args.volume
    /\ obj.pitch = args.pitch
    /\ ShortVoiceGiven \/ obj.voice = args.voice

C8_Witness ==
  /\ PostInitDone
  /\ \A i \in 1..Len(ParamNames) : FieldAccepted(args, ParamNames[i])
  /\ args.rate # args.volume
  /\ obj = args

(* C9: the check of rate and volume accepts a str exactly when the whole   *)
(* of it is a sign, digits and '%', that of pitch exactly when the whole   *)
(* of it is a sign, digits and 'Hz'; every other str gets a format error.  *)
C9_WholeStringOnly ==
  outcome.op = "validate_string_param" =>
    \A name \in {"rate", "volume", "pitch"} :
      isinstance_str(args[name]) =>
        /\ outcome.exc = "none" <=> WholeSigned(args[name].val, SuffixOf(name))
        /\ outcome.exc # "none" => outcome.exc = "ValueError"

====
